---------------------------- MODULE Spec2Model ----------------------------
(***************************************************************************)
(* A model of gotee.go: a tee that copies standard input to a set of      *)
(* files (fileWriters held by the container) and, in the chunked loop, to *)
(* standard output, with an interrupt goroutine that flushes, closes and  *)
(* exits while the main goroutine keeps running.                          *)
(*                                                                         *)
(* Bytes are one-character strings ("LF" and "CR" name the line feed and  *)
(* the carriage return, "NUL" the zero byte of a file hole).  A path is a *)
(* sequence of characters.  Standard error is not modelled.               *)
(***************************************************************************)
EXTENDS Integers, Sequences, FiniteSets, TLC

\* ------------------------------------------------------------- bounds
\* MaxArgs: paths on the command line; MaxInput: bytes on standard input;
\* MaxEvents: read errors, write failures and interrupts in one run;
\* MaxEofRounds: iterations of the line loop that read io.EOF.
MaxArgs == 2
MaxInput == 2
MaxEvents == 1
MaxEofRounds == 1

\* ------------------------------------------------- program constants
BlockSize == 2048

\* ------------------------------------------------------ environment
Bytes == {"a", "LF", "CR"}

PathF == <<"f">>
PathG == <<"g">>
PathD == <<"d">>
PathGlob == <<"x", "*">>
PathQ == <<"q", "?">>
Paths == {PathF, PathG, PathD, PathGlob, PathQ}

OldContent == <<"x">>

NoFile == [kind |-> "none", data |-> <<>>]
Directory == [kind |-> "dir", data |-> <<>>]
RegularFile(data) == [kind |-> "file", data |-> data]

\* The file system the process starts in: f is a file holding OldContent,
\* g does not exist, d is a directory (every open of it for writing fails);
\* no file matches the patterns x* and q?.
InitFS ==
    [p \in Paths |->
        IF p = PathF THEN RegularFile(OldContent)
        ELSE IF p = PathD THEN Directory
        ELSE NoFile]

BoundedSeq(S, n) == UNION {[1..k -> S] : k \in 0..n}

Min(a, b) == IF a < b THEN a ELSE b

VARIABLES
    args,         \* flag.Args(): the output paths
    appendFlag,   \* -a
    stdoutFlag,   \* after line 215: TRUE iff -S was not given
    helpFlag,     \* -h
    terminal,     \* os.Stdin is a character device
    input,        \* the bytes standard input will deliver
    pos,          \* how many of them have been read
    fs,           \* the file system: path -> [kind, data]
    fileWriters,  \* fileContainer.fileWriters
    stdout,       \* what has been written to file descriptor 1
    outBuf,       \* readWriter.Writer's buffer
    outErr,       \* readWriter.Writer's sticky error
    pc,           \* where the main goroutine is
    loop,         \* which read loop main is in: "none", "line", "chunk"
    i,            \* main's loop index (args or fileWriters)
    chunk,        \* the bytes main is dispatching
    eofRounds,    \* iterations of the line loop that saw io.EOF
    readErrs,     \* read errors injected so far
    writeFails,   \* write failures injected so far
    hpc,          \* where the interrupt goroutine is
    hj,           \* its index in the range over fileWriters
    hlen,         \* the length of the slice the range was started on
    exited,       \* the process has ended
    exitCode,     \* with this status
    chunks,       \* history: the chunks dispatched so far
    sigCount,     \* history: the chunks dispatched when the interrupt arrived
    eofSeen       \* history: a read has returned io.EOF

vars == <<args, appendFlag, stdoutFlag, helpFlag, terminal, input, pos, fs,
          fileWriters, stdout, outBuf, outErr, pc, loop, i, chunk, eofRounds,
          readErrs, writeFails, hpc, hj, hlen, exited, exitCode, chunks,
          sigCount, eofSeen>>

config == <<args, appendFlag, stdoutFlag, helpFlag, terminal, input>>
hist == <<chunks, sigCount, eofSeen>>
handler == <<hpc, hj, hlen>>

\* ------------------------------------------------------------ files

\* strings.Contains(path, "*")
ContainsStar(path) == \E k \in 1..Len(path) : path[k] = "*"

Pad(data, n) ==
    IF Len(data) >= n THEN data
    ELSE data \o [k \in 1..(n - Len(data)) |-> "NUL"]

\* write(2) of bytes at offset off (0-based) of a file holding data
WriteAt(data, off, bytes) ==
    LET p == Pad(data, off)
        e == off + Len(bytes)
    IN SubSeq(p, 1, off) \o bytes \o
       (IF Len(p) > e THEN SubSeq(p, e + 1, Len(p)) ELSE <<>>)

\* write(2) through a handle: O_APPEND writes at the end of the file
HandleWrite(s, data, bytes) ==
    IF s.app THEN data \o bytes ELSE WriteAt(data, s.off, bytes)

\* ---------------------------------------------------------- fileWriter

\* A fileWriter as newFileWriter returns it.  app: the handle was opened with
\* O_APPEND; off: the handle's file offset; buf, err: the bufio.Writer's
\* buffer and sticky error; closes: calls of file.Close.  History: since,
\* the number of chunks dispatched before it was created; log, the indices
\* (in chunks) of the chunks write was called with; failedAt, the index of
\* the chunk whose write failed (0: none).
NewWriter(path, app) ==
    [path |-> path, active |-> TRUE, app |-> app, off |-> 0, buf |-> <<>>,
     err |-> FALSE, closes |-> 0, since |-> Len(chunks), log |-> <<>>,
     failedAt |-> 0]

\* newFileWriter with the truncation of an existing file left out
newFileWriterNoTruncate(path, append, f) ==
    LET st == f[path] IN
    IF st.kind = "none"
    THEN [ok |-> TRUE, fs |-> [f EXCEPT ![path] = RegularFile(<<>>)],
          fw |-> NewWriter(path, FALSE)]
    ELSE IF st.kind = "dir"
    THEN [ok |-> FALSE, fs |-> f, fw |-> NewWriter(path, FALSE)]
    ELSE [ok |-> TRUE, fs |-> f, fw |-> NewWriter(path, append)]

\* newFileWriter(path, append) in file system f: whether it succeeded, the
\* file system it leaves, the fileWriter.  The handle os.Create returns is
\* overwritten by OpenFile's and never written to.
newFileWriter(path, append, f) ==
    LET st == f[path] IN
    IF st.kind = "none"
    THEN \* os.Stat fails: os.Create, then OpenFile(O_CREATE|O_WRONLY)
         [ok |-> TRUE, fs |-> [f EXCEPT ![path] = RegularFile(<<>>)],
          fw |-> NewWriter(path, FALSE)]
    ELSE IF st.kind = "dir"
    THEN \* os.Create, or OpenFile(O_APPEND|O_WRONLY), fails on a directory
         [ok |-> FALSE, fs |-> f, fw |-> NewWriter(path, FALSE)]
    ELSE IF append
    THEN \* OpenFile(O_APPEND|O_WRONLY)
         [ok |-> TRUE, fs |-> f, fw |-> NewWriter(path, TRUE)]
    ELSE \* os.Create truncates, then OpenFile(O_CREATE|O_WRONLY)
         [ok |-> TRUE, fs |-> [f EXCEPT ![path] = RegularFile(<<>>)],
          fw |-> NewWriter(path, FALSE)]

\* addFileWriter appending whatever newFileWriter returned
addFileWriterAlways(ws, r) == Append(ws, r.fw)

\* container.addFileWriter: the slice after the call
addFileWriter(ws, r) == IF r.ok THEN Append(ws, r.fw) ELSE ws

\* The outcomes of the write(2) that bufio.Writer.Flush issues for a
\* fileWriter with a non-empty buffer: n bytes written, ok or not.  A closed
\* handle fails; an open one succeeds or (an injected I/O failure) fails
\* after a short write.
FdWriteOutcomes(s, canFail) ==
    IF s.closes > 0 THEN {[n |-> 0, ok |-> FALSE, injected |-> FALSE]}
    ELSE {[n |-> Len(s.buf), ok |-> TRUE, injected |-> FALSE]} \cup
         (IF canFail
          THEN {[n |-> k, ok |-> FALSE, injected |-> TRUE] :
                    k \in 0..(Len(s.buf) - 1)}
          ELSE {})

\* The file after that write(2)
FileAfter(s, file, o) ==
    IF o.n = 0 THEN file
    ELSE RegularFile(HandleWrite(s, file.data, SubSeq(s.buf, 1, o.n)))

\* bufio.Writer.Flush's bookkeeping after that write(2)
WriterAfter(s, o) ==
    [s EXCEPT !.off = @ + o.n,
              !.buf = SubSeq(@, o.n + 1, Len(@)),
              !.err = ~o.ok]

\* ------------------------------------------------------------- reader

\* The index of the first "LF" of rest, 0 when it has none
FirstLF(rest) ==
    IF \E k \in 1..Len(rest) : rest[k] = "LF"
    THEN CHOOSE k \in 1..Len(rest) :
            rest[k] = "LF" /\ \A m \in 1..(k - 1) : rest[m] # "LF"
    ELSE 0

\* bufio.Reader.ReadLine on the unread input rest (not empty): the line
\* without its terminator ("LF", or "CR" "LF") and the bytes consumed.  The
\* inputs of the model are shorter than the reader's buffer: isPrefix is
\* false.
ReadLine(rest) ==
    LET j == FirstLF(rest) IN
    IF j = 0 THEN [line |-> rest, n |-> Len(rest)]
    ELSE LET drop == IF j > 1 /\ rest[j - 1] = "CR" THEN 2 ELSE 1
         IN [line |-> SubSeq(rest, 1, j - drop), n |-> j]

\* fmt.Sprintf("%s\n", string(input))
LineChunk(line) == line \o <<"LF">>

Rest == SubSeq(input, pos + 1, Len(input))

\* -------------------------------------------------------------- init

Init ==
    /\ args \in BoundedSeq(Paths, MaxArgs)
    /\ appendFlag \in BOOLEAN
    /\ stdoutFlag \in BOOLEAN
    /\ helpFlag \in BOOLEAN
    /\ terminal \in BOOLEAN
    /\ input \in BoundedSeq(Bytes, MaxInput)
    /\ pos = 0
    /\ fs = InitFS
    /\ fileWriters = <<>>
    /\ stdout = <<>>
    /\ outBuf = <<>>
    /\ outErr = FALSE
    /\ pc = "start"
    /\ loop = "none"
    /\ i = 1
    /\ chunk = <<>>
    /\ eofRounds = 0
    /\ readErrs = 0
    /\ writeFails = 0
    /\ hpc = "off"
    /\ hj = 1
    /\ hlen = 0
    /\ exited = FALSE
    /\ exitCode = 0
    /\ chunks = <<>>
    /\ sigCount = 0
    /\ eofSeen = FALSE

\* os.Exit(code), or main returning (code 0)
Exit(code) ==
    /\ exited' = TRUE
    /\ exitCode' = code

Running == ~exited

\* The events the environment has sent: read errors, write failures, the
\* interrupt.  A run of the model has at most MaxEvents of them.
Events ==
    readErrs + writeFails + (IF hpc \in {"off", "idle"} THEN 0 ELSE 1)

CanFail == Events < MaxEvents

\* ---------------------------------------------------- main goroutine

\* line 219: fmt.Println("args", args) writes to standard output
PrintArgs ==
    /\ Running /\ pc = "start"
    /\ stdout' = Append(stdout, "args")
    /\ pc' = "usage"
    /\ UNCHANGED <<config, pos, fs, fileWriters, outBuf, outErr, loop, i,
                   chunk, eofRounds, readErrs, writeFails, handler, exited,
                   exitCode, hist>>

\* lines 221-230: -h, or no path, prints the usage (to standard error) and
\* printHelp exits with status 0
Usage ==
    /\ Running /\ pc = "usage"
    /\ IF helpFlag \/ Len(args) = 0
       THEN /\ Exit(0)
            /\ pc' = "helped"
       ELSE /\ pc' = "notify"
            /\ UNCHANGED <<exited, exitCode>>
    /\ UNCHANGED <<config, pos, fs, fileWriters, stdout, outBuf, outErr, loop,
                   i, chunk, eofRounds, readErrs, writeFails, handler, hist>>

\* lines 235-255: signal.Notify, the interrupt goroutine starts, and the
\* read loop is chosen by os.Stdin's mode
Notify ==
    /\ Running /\ pc = "notify"
    /\ hpc' = "idle"
    /\ loop' = IF terminal THEN "line" ELSE "chunk"
    /\ i' = 1
    /\ pc' = "register"
    /\ UNCHANGED <<config, pos, fs, fileWriters, stdout, outBuf, outErr,
                   chunk, eofRounds, readErrs, writeFails, hj, hlen, exited,
                   exitCode, hist>>

\* lines 260-269 (before the line loop) and 316-325 (before the chunked
\* loop): one iteration of the loop over args
Register ==
    /\ Running /\ pc = "register" /\ i <= Len(args)
    /\ IF ContainsStar(args[i])
       THEN UNCHANGED <<fs, fileWriters>>
       ELSE LET r == newFileWriter(args[i], appendFlag, fs)
            IN /\ fs' = r.fs
               /\ fileWriters' = addFileWriter(fileWriters, r)
    /\ IF i < Len(args)
       THEN /\ i' = i + 1
            /\ pc' = pc
       ELSE /\ i' = 1
            /\ pc' = IF loop = "line" THEN "lineRead" ELSE "guard"
    /\ UNCHANGED <<config, pos, stdout, outBuf, outErr, loop, chunk,
                   eofRounds, readErrs, writeFails, handler, exited, exitCode,
                   hist>>

\* lines 326-329: no fileWriter, exit with status 1
Guard ==
    /\ Running /\ pc = "guard"
    /\ IF Len(fileWriters) = 0
       THEN /\ Exit(1)
            /\ pc' = "nosinks"
       ELSE /\ pc' = "chunkRead"
            /\ UNCHANGED <<exited, exitCode>>
    /\ UNCHANGED <<config, pos, fs, fileWriters, stdout, outBuf, outErr, loop,
                   i, chunk, eofRounds, readErrs, writeFails, handler, hist>>

\* Where main goes with a chunk to dispatch: the loop over fileWriters, or
\* past it when the container is empty
AfterDispatch ==
    IF loop = "line" THEN "lineRead"
    ELSE IF stdoutFlag THEN "ptWrite" ELSE "chunkRead"

\* Dispatch with the loop over fileWriters left out
DispatchSkipsSinks(bytes) ==
    /\ chunk' = bytes
    /\ chunks' = Append(chunks, bytes)
    /\ i' = 1
    /\ pc' = AfterDispatch

Dispatch(bytes) ==
    /\ chunk' = bytes
    /\ chunks' = Append(chunks, bytes)
    /\ i' = 1
    /\ pc' = IF Len(fileWriters) = 0 THEN AfterDispatch ELSE "write"

\* lines 277-294: a read error leaves the line loop for line 316; io.EOF is
\* printed to standard output and the (empty) line is dispatched like any
\* other.  A read error is modelled between lines.
LineRead ==
    /\ Running /\ pc = "lineRead"
    /\ \/ /\ CanFail
          /\ readErrs' = readErrs + 1
          /\ loop' = "chunk"
          /\ i' = 1
          /\ pc' = "register"
          /\ UNCHANGED <<pos, stdout, chunk, eofRounds, chunks, eofSeen>>
       \/ /\ Rest = <<>>
          /\ eofRounds < MaxEofRounds
          /\ eofRounds' = eofRounds + 1
          /\ eofSeen' = TRUE
          /\ stdout' = Append(stdout, "EOF")
          /\ Dispatch(LineChunk(<<>>))
          /\ UNCHANGED <<pos, loop, readErrs>>
       \/ /\ Rest # <<>>
          /\ LET r == ReadLine(Rest)
             IN /\ pos' = pos + r.n
                /\ Dispatch(LineChunk(r.line))
          /\ UNCHANGED <<stdout, loop, eofRounds, readErrs, eofSeen>>
    /\ UNCHANGED <<config, fs, fileWriters, outBuf, outErr, writeFails,
                   handler, exited, exitCode, sigCount>>

\* lines 335-342: bufio's Read returns between 1 and len(buf) bytes, or 0
\* bytes with io.EOF or with an error
ChunkRead ==
    /\ Running /\ pc = "chunkRead"
    /\ \/ /\ CanFail
          /\ readErrs' = readErrs + 1
          /\ pc' = "return"
          /\ UNCHANGED <<pos, i, chunk, chunks, eofSeen>>
       \/ /\ Rest = <<>>
          /\ eofSeen' = TRUE
          /\ pc' = "return"
          /\ UNCHANGED <<pos, i, chunk, chunks, readErrs>>
       \/ /\ \E n \in 1..Min(BlockSize, Len(Rest)) :
                /\ pos' = pos + n
                /\ Dispatch(SubSeq(Rest, 1, n))
          /\ UNCHANGED <<readErrs, eofSeen>>
    /\ UNCHANGED <<config, fs, fileWriters, stdout, outBuf, outErr, loop,
                   eofRounds, writeFails, handler, exited, exitCode, sigCount>>

\* Advance leaving the loop over fileWriters after the first one
AdvanceStopsAfterFirst ==
    /\ i' = 1
    /\ pc' = AfterDispatch

\* The loop over fileWriters moves on from index i
Advance ==
    IF i < Len(fileWriters)
    THEN /\ i' = i + 1
         /\ pc' = "write"
    ELSE /\ i' = 1
         /\ pc' = AfterDispatch

\* Deactivate with the assignment to active left out
DeactivateKeepsActive(s) ==
    [s EXCEPT !.failedAt = Len(chunks)]

\* lines 306-309, 349-351: the write returned an error for the current chunk
Deactivate(s) ==
    [s EXCEPT !.active = FALSE, !.failedAt = Len(chunks)]

\* SkipInactive setting the fileWriter active again for the next chunk
SkipInactiveReactivates ==
    /\ Running /\ pc = "write"
    /\ ~fileWriters[i].active
    /\ fileWriters' = [fileWriters EXCEPT ![i].active = TRUE]
    /\ Advance
    /\ UNCHANGED <<config, pos, fs, stdout, outBuf, outErr, loop,
                   chunk, eofRounds, readErrs, writeFails, handler, exited,
                   exitCode, hist>>

\* lines 298, 346: an inactive fileWriter is passed over
SkipInactive ==
    /\ Running /\ pc = "write"
    /\ ~fileWriters[i].active
    /\ Advance
    /\ UNCHANGED <<config, pos, fs, fileWriters, stdout, outBuf, outErr, loop,
                   chunk, eofRounds, readErrs, writeFails, handler, exited,
                   exitCode, hist>>

\* lines 299, 347 into line 100: s.writer.Write(bytes) appends to the buffer
\* (a chunk is shorter than the buffer), or returns the sticky error and
\* the fileWriter is deactivated
WriterWrite ==
    /\ Running /\ pc = "write"
    /\ fileWriters[i].active
    /\ LET s == [fileWriters[i] EXCEPT !.log = Append(@, Len(chunks))]
       IN IF s.err
          THEN /\ fileWriters' = [fileWriters EXCEPT ![i] = Deactivate(s)]
               /\ Advance
          ELSE /\ fileWriters' =
                      [fileWriters EXCEPT ![i] = [s EXCEPT !.buf = @ \o chunk]]
               /\ pc' = "flush"
               /\ i' = i
    /\ UNCHANGED <<config, pos, fs, stdout, outBuf, outErr, loop, chunk,
                   eofRounds, readErrs, writeFails, handler, exited, exitCode,
                   hist>>

\* lines 104-108 and 305-309, 348-351: s.writer.Flush() writes the buffer to
\* the file; the second Flush finds the buffer empty or the error sticky;
\* an error deactivates the fileWriter
WriterFlush ==
    /\ Running /\ pc = "flush"
    /\ LET s == fileWriters[i]
       IN IF s.err
          THEN /\ fileWriters' = [fileWriters EXCEPT ![i] = Deactivate(s)]
               /\ UNCHANGED <<fs, writeFails>>
          ELSE IF s.buf = <<>>
          THEN UNCHANGED <<fs, fileWriters, writeFails>>
          ELSE \E o \in FdWriteOutcomes(s, CanFail) :
                  /\ fs' = [fs EXCEPT ![s.path] = FileAfter(s, @, o)]
                  /\ writeFails' = writeFails + (IF o.injected THEN 1 ELSE 0)
                  /\ fileWriters' =
                        [fileWriters EXCEPT ![i] =
                            IF o.ok THEN WriterAfter(s, o)
                            ELSE Deactivate(WriterAfter(s, o))]
    /\ Advance
    /\ UNCHANGED <<config, pos, stdout, outBuf, outErr, loop, chunk,
                   eofRounds, readErrs, handler, exited, exitCode, hist>>

\* line 355: readWriter.Write(buf[0:n]); its error is ignored
PassWrite ==
    /\ Running /\ pc = "ptWrite"
    /\ outBuf' = IF outErr THEN outBuf ELSE outBuf \o chunk
    /\ pc' = "ptFlush"
    /\ UNCHANGED <<config, pos, fs, fileWriters, stdout, outErr, loop, i,
                   chunk, eofRounds, readErrs, writeFails, handler, exited,
                   exitCode, hist>>

\* lines 357-359: readWriter.Flush(); its error is ignored; count++
PassFlush ==
    /\ Running /\ pc = "ptFlush"
    /\ IF outErr \/ outBuf = <<>>
       THEN UNCHANGED <<stdout, outBuf, outErr, writeFails>>
       ELSE \/ /\ stdout' = stdout \o outBuf
               /\ outBuf' = <<>>
               /\ UNCHANGED <<outErr, writeFails>>
            \/ /\ CanFail
               /\ writeFails' = writeFails + 1
               /\ outErr' = TRUE
               /\ UNCHANGED <<stdout, outBuf>>
    /\ pc' = "chunkRead"
    /\ UNCHANGED <<config, pos, fs, fileWriters, loop, i, chunk, eofRounds,
                   readErrs, handler, exited, exitCode, hist>>

\* line 374: main returns and the process ends with status 0; nothing is
\* closed (lines 362-366 are commented out)
Return ==
    /\ Running /\ pc = "return"
    /\ Exit(0)
    /\ pc' = "returned"
    /\ UNCHANGED <<config, pos, fs, fileWriters, stdout, outBuf, outErr, loop,
                   i, chunk, eofRounds, readErrs, writeFails, handler, hist>>

\* ----------------------------------------------- interrupt goroutine

\* lines 237-243: the signal is received from c; the goroutine then sleeps
\* 100 ms while main runs on.  Only the first interrupt matters (the
\* goroutine exits the process on it); one that arrives before
\* signal.Notify is not modelled.
Interrupt ==
    /\ Running /\ hpc = "idle"
    /\ CanFail
    /\ hpc' = "sleep"
    /\ sigCount' = Len(chunks)
    /\ UNCHANGED <<config, pos, fs, fileWriters, stdout, outBuf, outErr, pc,
                   loop, i, chunk, eofRounds, readErrs, writeFails, hj, hlen,
                   exited, exitCode, chunks, eofSeen>>

\* line 245: the range expression is evaluated once
RangeStart ==
    /\ hlen' = Len(fileWriters)
    /\ hj' = 1
    /\ hpc' = IF Len(fileWriters) = 0 THEN "exit" ELSE "close"

\* line 244: readWriter.Writer.Flush() writes the buffer to standard output
HandlerFlush ==
    /\ Running /\ hpc = "sleep"
    /\ IF outErr \/ outBuf = <<>>
       THEN /\ RangeStart
            /\ UNCHANGED stdout
       ELSE /\ stdout' = stdout \o outBuf
            /\ hpc' = "ptFlush"
            /\ UNCHANGED <<hj, hlen>>
    /\ UNCHANGED <<config, pos, fs, fileWriters, outBuf, outErr, pc, loop, i,
                   chunk, eofRounds, readErrs, writeFails, exited, exitCode,
                   hist>>

\* line 244, the end of Flush: the buffer is reset, whatever main has put
\* into it meanwhile
HandlerFlushEnd ==
    /\ Running /\ hpc = "ptFlush"
    /\ outBuf' = <<>>
    /\ RangeStart
    /\ UNCHANGED <<config, pos, fs, fileWriters, stdout, outErr, pc, loop, i,
                   chunk, eofRounds, readErrs, writeFails, exited, exitCode,
                   hist>>

\* line 246 into line 113: s.close() flushes the fileWriter's buffer.  The
\* write(2) is done here and the buffer is reset in HandlerCloseEnd
\* ("closingReset"): main may use the same bufio.Writer in between.
HandlerClose ==
    /\ Running /\ hpc = "close"
    /\ LET s == fileWriters[hj]
       IN IF s.err \/ s.buf = <<>>
          THEN /\ hpc' = "closing"
               /\ UNCHANGED <<fs, fileWriters, writeFails>>
          ELSE \E o \in FdWriteOutcomes(s, CanFail) :
                  /\ fs' = [fs EXCEPT ![s.path] = FileAfter(s, @, o)]
                  /\ writeFails' = writeFails + (IF o.injected THEN 1 ELSE 0)
                  /\ fileWriters' =
                        [fileWriters EXCEPT ![hj] =
                            IF o.ok THEN [s EXCEPT !.off = @ + o.n]
                            ELSE WriterAfter(s, o)]
                  /\ hpc' = IF o.ok THEN "closingReset" ELSE "closing"
    /\ UNCHANGED <<config, pos, stdout, outBuf, outErr, pc, loop, i, chunk,
                   eofRounds, readErrs, hj, hlen, exited, exitCode, hist>>

\* lines 113-116: the end of Flush, then s.file.Close()
HandlerCloseEnd ==
    /\ Running /\ hpc \in {"closing", "closingReset"}
    /\ fileWriters' =
          [fileWriters EXCEPT ![hj] =
              [@ EXCEPT !.buf = IF hpc = "closingReset" THEN <<>> ELSE @,
                        !.closes = @ + 1]]
    /\ hj' = hj + 1
    /\ hpc' = IF hj + 1 > hlen THEN "exit" ELSE "close"
    /\ UNCHANGED <<config, pos, fs, stdout, outBuf, outErr, pc, loop, i,
                   chunk, eofRounds, readErrs, writeFails, hlen, exited,
                   exitCode, hist>>

\* lines 248-249: os.Exit(0)
HandlerExit ==
    /\ Running /\ hpc = "exit"
    /\ Exit(0)
    /\ hpc' = "done"
    /\ UNCHANGED <<config, pos, fs, fileWriters, stdout, outBuf, outErr, pc,
                   loop, i, chunk, eofRounds, readErrs, writeFails, hj, hlen,
                   hist>>

\* ------------------------------------------------------ specification

Next ==
    \/ PrintArgs
    \/ Usage
    \/ Notify
    \/ Register
    \/ Guard
    \/ LineRead
    \/ ChunkRead
    \/ SkipInactive
    \/ WriterWrite
    \/ WriterFlush
    \/ PassWrite
    \/ PassFlush
    \/ Return
    \/ Interrupt
    \/ HandlerFlush
    \/ HandlerFlushEnd
    \/ HandlerClose
    \/ HandlerCloseEnd
    \/ HandlerExit

Spec == Init /\ [][Next]_vars

\* ------------------------------------------------ notions of the claims

RECURSIVE Flatten(_)
Flatten(ss) == IF ss = <<>> THEN <<>> ELSE Head(ss) \o Flatten(Tail(ss))

IsByte(b) == b \in Bytes

\* The input bytes written to standard output (without the "args" and
\* "EOF" lines that fmt.Println writes there)
StdoutBytes == SelectSeq(stdout, IsByte)

\* The input bytes read so far
BytesRead == SubSeq(input, 1, pos)

\* The bytes write was called with on fileWriter s
Sent(s) == Flatten([k \in 1..Len(s.log) |-> chunks[s.log[k]]])

\* What the append/truncate policy leaves of a file at open
Base(path) ==
    IF appendFlag /\ InitFS[path].kind = "file" THEN InitFS[path].data
    ELSE <<>>

Sinks == 1..Len(fileWriters)

\* The interrupt has been received by the goroutine
Interrupted == hpc \notin {"off", "idle"}

\* fileWriter k is the only one on its file
SolePath(k) ==
    \A j \in Sinks : fileWriters[j].path = fileWriters[k].path => j = k

\* The paths are valid (each can be opened) and distinct
ValidArgs ==
    /\ Len(args) > 0
    /\ \A k \in 1..Len(args) : args[k] \in {PathF, PathG}
    /\ \A k, m \in 1..Len(args) : args[k] = args[m] => k = m

\* No path of the command line can be opened
NoSinkArgs ==
    \A k \in 1..Len(args) :
        ContainsStar(args[k]) \/ InitFS[args[k]].kind = "dir"

\* The number of dispatched chunks for which main has reached fileWriter k
Reached(k) ==
    IF (pc = "write" /\ i <= k) \/ (pc = "flush" /\ i < k)
    THEN Len(chunks) - 1
    ELSE Len(chunks)

\* ------------------------------------------------------------- claims

\* C1 (as claimed): with valid distinct paths, no write failure and no
\* interrupt, once the input is exhausted (the process has ended, or the
\* line loop has seen io.EOF and is between two reads) every file holds
\* what the open policy left of it followed by exactly the bytes read.
Fidelity ==
    (/\ ValidArgs /\ ~helpFlag
     /\ writeFails = 0 /\ ~Interrupted
     /\ \/ pc = "returned"
        \/ (pc = "lineRead" /\ eofSeen))
    => \A k \in 1..Len(args) :
          fs[args[k]].data = Base(args[k]) \o BytesRead

\* C1, restricted to the chunked loop, where the code does satisfy it
FidelityChunked ==
    (/\ ValidArgs /\ ~helpFlag /\ ~terminal
     /\ writeFails = 0 /\ ~Interrupted
     /\ pc = "returned")
    => \A k \in 1..Len(args) :
          fs[args[k]].data = Base(args[k]) \o BytesRead

InterruptScenario ==
    (/\ exited /\ Interrupted /\ sigCount >= 1
     /\ ValidArgs /\ writeFails = 0 /\ readErrs = 0)
    => /\ exitCode = 0
       /\ outBuf = <<>>
       /\ \A k \in Sinks :
             LET s == fileWriters[k] IN
             /\ s.closes = 1
             /\ s.buf = <<>>
             /\ \E n \in {sigCount - 1, sigCount} :
                   fs[s.path].data =
                      Base(s.path) \o Flatten(SubSeq(chunks, 1, n))

\* C4 (as claimed): when no path of the command line can be opened, no read
\* is issued, nothing is written to a file or to standard output, and the
\* process ends with status 1.
NoSinkGuard ==
    (NoSinkArgs /\ ~helpFlag)
    => /\ pos = 0 /\ chunks = <<>> /\ ~eofSeen /\ readErrs = 0
       /\ fs = InitFS
       /\ stdout = <<>>
       /\ exited => exitCode = 1

\* C5 (as claimed): without -S, what a run that read its whole input has
\* written to standard output is the input; with -S nothing is ever written
\* to standard output.
PassthroughToggle ==
    /\ (stdoutFlag /\ ~outErr /\ ~Interrupted /\ pc = "returned" /\ eofSeen)
       => stdout = input
    /\ ~stdoutFlag => stdout = <<>>

\* C6: append law.  While no interrupt has arrived, the file of a
\* fileWriter that is the only one on its path and has had no failure
\* holds, with what is still in the writer's buffer, the old content
\* followed by the bytes write was called with when -a is given and the
\* file existed, and only those bytes otherwise.
AppendLaw ==
    \A k \in Sinks :
        LET s == fileWriters[k] IN
        (~Interrupted /\ s.failedAt = 0 /\ ~s.err /\ SolePath(k))
        => /\ fs[s.path].kind = "file"
           /\ fs[s.path].data \o s.buf =
                 (IF appendFlag /\ s.path = PathF THEN OldContent ELSE <<>>)
                 \o Sent(s)

\* C6's cases: input appended to the old content, input replacing it, and
\* a new file
AppendLawWitness ==
    /\ pc = "returned" /\ ~Interrupted /\ writeFails = 0
    /\ input # <<>> /\ pos = Len(input)
    /\ args = <<PathF, PathG>>
    /\ fs[PathG].data = input
    /\ fs[PathF].data = OldContent \o input

AppendLawWitnessTruncate ==
    /\ pc = "returned" /\ ~Interrupted /\ writeFails = 0
    /\ input # <<>> /\ pos = Len(input)
    /\ args = <<PathF>> /\ ~appendFlag
    /\ fs[PathF].data = input

\* C7 (as claimed): the interrupt goroutine is never inside close of a
\* fileWriter while main is inside write on it, nor inside Flush of
\* readWriter.Writer while main is between its Write and the end of its
\* Flush.
MutualExclusion ==
    /\ ~(/\ hpc \in {"closing", "closingReset"}
         /\ pc = "flush"
         /\ i = hj)
    /\ ~(hpc = "ptFlush" /\ pc = "ptFlush")

\* C8 (as claimed): once the interrupt has been received, main issues no
\* read and dispatches no chunk.
ImmediateCancellation ==
    [][Interrupted =>
          /\ pos' = pos
          /\ chunks' = chunks
          /\ readErrs' = readErrs
          /\ eofSeen' = eofSeen
          /\ eofRounds' = eofRounds]_vars

\* C9 (as claimed): when the process has ended after opening fileWriters,
\* close has been called exactly once on each and readWriter.Writer holds
\* nothing unflushed.
CloseExactlyOnce ==
    (exited /\ Len(fileWriters) > 0)
    => /\ \A k \in Sinks : fileWriters[k].closes = 1
       /\ outBuf = <<>>

\* C10 (as claimed): once a read has returned io.EOF, main is out of its
\* read loop: it dispatches nothing and is returning or has returned.
EofTerminates ==
    (eofSeen /\ ~Interrupted) => pc \in {"return", "returned"}

\* C11 (as claimed): once a read has failed with an error other than
\* io.EOF, in either loop, main issues no read (none returns data, io.EOF
\* or an error) and dispatches no chunk.
FatalReadError ==
    [][readErrs > 0 =>
          /\ pos' = pos
          /\ chunks' = chunks
          /\ eofSeen' = eofSeen
          /\ readErrs' = readErrs]_vars

\* The bytes of the chunks dispatched since fileWriter s was created
DispatchedSince(s) == Flatten(SubSeq(chunks, s.since + 1, Len(chunks)))

\* Between two iterations of the chunked loop, or after it
IterationDone == loop = "chunk" /\ pc \in {"chunkRead", "return", "returned"}

\* C12 (as claimed): after every completed iteration of the chunked loop,
\* what has been written through a fileWriter that has had no failed write
\* is the concatenation, in read order, of the chunks read (since stdin is
\* not a terminal: of all the bytes read); the file of a fileWriter that is
\* the only one on its path holds them after what the open policy left.
PrefixInvariant ==
    IterationDone =>
       \A k \in Sinks :
          LET s == fileWriters[k] IN
          s.failedAt = 0 =>
             /\ Sent(s) = DispatchedSince(s)
             /\ ~terminal => Sent(s) = BytesRead
             /\ s.buf = <<>>
             /\ s.off = Len(Sent(s))
             /\ SolePath(k) => fs[s.path].data = Base(s.path) \o Sent(s)

\* C12, while no interrupt has been received: the code does satisfy it
PrefixInvariantUninterrupted ==
    (IterationDone /\ ~Interrupted) => PrefixInvariant

\* The least number of blocks of BlockSize bytes that hold n bytes
Ceil(n) == (n + BlockSize - 1) \div BlockSize

\* The run read its input in the chunked loop from the start
ChunkedRun == ~terminal /\ IterationDone

DeactivationPermanent ==
    [][/\ Len(fileWriters') >= Len(fileWriters)
       /\ \A k \in 1..Len(fileWriters') :
             IF k \in Sinks
             THEN ~fileWriters[k].active => ~fileWriters'[k].active
             ELSE fileWriters'[k].active]_vars

\* C14's case: a fileWriter was deactivated by the failed write of a chunk,
\* main has dispatched a later chunk and passed it over, and it is inactive
\* when the process has ended.
DeactivationPermanentWitness ==
    /\ pc = "returned"
    /\ \E k \in Sinks :
          /\ ~fileWriters[k].active
          /\ fileWriters[k].failedAt >= 1
          /\ fileWriters[k].failedAt < Len(chunks)
          /\ fileWriters[k].log[Len(fileWriters[k].log)] =
                fileWriters[k].failedAt

\* Chunk c is among those write was called with on fileWriter s
Written(s, c) == \E m \in 1..Len(s.log) : s.log[m] = c

\* fileWriter s was deactivated before chunk c was dispatched
FailedBefore(s, c) == s.failedAt > 0 /\ s.failedAt < c

\* C15: dispatch order.  Every step that calls write on fileWriter k calls
\* it on an active fileWriter, with the chunk read last; at that moment
\* write has been called with that chunk on every fileWriter before k that
\* was active for it and on none after k (insertion order), and with the
\* chunk before it on every fileWriter that existed and was active for it
\* (chunk j is finished before chunk j+1 is begun).
DispatchOrder ==
    [][\A k \in Sinks :
          fileWriters'[k].log # fileWriters[k].log =>
             LET c == Len(chunks) IN
             /\ fileWriters[k].active
             /\ pc = "write" /\ i = k
             /\ fileWriters'[k].log = Append(fileWriters[k].log, c)
             /\ \A j \in Sinks :
                   LET s == fileWriters[j] IN
                   /\ \A m \in 1..Len(s.log) : s.log[m] <= c
                   /\ j < k => (Written(s, c) \/ FailedBefore(s, c))
                   /\ j > k => ~Written(s, c)
                   /\ (c > 1 /\ s.since < c - 1) =>
                         (Written(s, c - 1) \/ FailedBefore(s, c - 1))]_vars

\* C15's case: two chunks, each written to the first fileWriter and then to
\* the second
DispatchOrderWitness ==
    /\ pc = "returned" /\ Len(chunks) = 2
    /\ Len(fileWriters) = 2
    /\ fileWriters[1].path # fileWriters[2].path
    /\ fileWriters[1].log = <<1, 2>>
    /\ fileWriters[2].log = <<1, 2>>
    /\ fileWriters[1].path = args[1] /\ fileWriters[2].path = args[2]

\* The path passes the test of line 261 and can be opened for writing
Openable(path) == ~ContainsStar(path) /\ InitFS[path].kind # "dir"

\* The paths a loop over the first n arguments opens, in order
Opened(n) == SelectSeq(SubSeq(args, 1, n), Openable)

\* The number of arguments the running (or last) loop over args has handled
Handled ==
    IF pc \in {"start", "usage", "helped", "notify"} THEN 0
    ELSE IF pc = "register" THEN i - 1
    ELSE Len(args)

\* main is in, or past, the loop over args of lines 316-325 after the
\* line loop
SecondPass == terminal /\ loop = "chunk"

\* C16: an open failure is local.  The fileWriters are, in order, those of
\* the paths handled so far that can be opened (after all of them, when
\* the loop over args is run a second time): a path whose open fails adds
\* none and stops nothing; the failed open leaves the file system alone;
\* the process ends with status 1 only when no path could be opened; and
\* a run with at least one fileWriter, without I/O failure or interrupt,
\* reads its whole input and calls write with every chunk on every
\* fileWriter.
OpenFailureLocal ==
    /\ [k \in Sinks |-> fileWriters[k].path] =
          (IF SecondPass THEN Opened(Len(args)) ELSE <<>>) \o Opened(Handled)
    /\ \A p \in Paths : InitFS[p].kind = "dir" => fs[p] = InitFS[p]
    /\ (exited /\ exitCode = 1) => Opened(Len(args)) = <<>>
    /\ (/\ Len(fileWriters) > 0
        /\ readErrs = 0 /\ writeFails = 0 /\ ~Interrupted
        /\ pc = "returned" \/ (pc = "lineRead" /\ eofSeen))
       => /\ pos = Len(input)
          /\ \A k \in Sinks :
                /\ fileWriters[k].active
                /\ fileWriters[k].log = [m \in 1..Len(chunks) |-> m]
                /\ ~terminal => Sent(fileWriters[k]) = input

\* C16's case: the first path is a directory and the second a file; the
\* file is the only fileWriter and has the whole input
OpenFailureLocalWitness ==
    /\ args = <<PathD, PathF>>
    /\ pc = "returned" /\ ~terminal
    /\ input # <<>> /\ pos = Len(input)
    /\ Len(fileWriters) = 1
    /\ fileWriters[1].path = PathF
    /\ fs[PathF].data = Base(PathF) \o input
    /\ fs[PathD] = Directory

\* C17 (as claimed): once a Write or Flush of readWriter.Writer has failed,
\* main issues no read and dispatches no chunk.
PassthroughFatal ==
    [][outErr =>
          /\ pos' = pos
          /\ chunks' = chunks
          /\ eofSeen' = eofSeen
          /\ readErrs' = readErrs]_vars

\* The path contains one of the metacharacters of a glob pattern
IsGlob(path) == \E k \in 1..Len(path) : path[k] \in {"*", "?", "["}

\* C18 (as claimed): a path that contains a glob metacharacter is never
\* created, truncated or opened, and no fileWriter is added for it.
GlobRejection ==
    \A p \in Paths :
        IsGlob(p) =>
           /\ fs[p] = InitFS[p]
           /\ \A k \in Sinks : fileWriters[k].path # p

\* The number of times path p is given on the command line
Occurrences(p) == Cardinality({k \in 1..Len(args) : args[k] = p})

\* C19 (as claimed): a path is opened at most once for each time it is
\* given: there are never more fileWriters on it than that.
SingleRegistration ==
    \A p \in Paths :
        Cardinality({k \in Sinks : fileWriters[k].path = p}) <= Occurrences(p)

\* C20 (as claimed): no step of main calls write on a fileWriter, or goes
\* through the Flush inside write, after close has been called on it.
NoWriteAfterClose ==
    [][\A k \in Sinks :
          fileWriters[k].closes > 0 =>
             /\ fileWriters'[k].log = fileWriters[k].log
             /\ ~(pc = "flush" /\ i = k /\ pc' # "flush")]_vars
=============================================================================
